---------------------------- MODULE Spec2Model ----------------------------
(***************************************************************************)
(* AICAP Risk Terminal (src/app.py): a Streamlit form whose "Run AICAP     *)
(* Audit" button assembles the declared attributes of an AI system into    *)
(* system_data, passes it to run_audit, and renders the verdict.           *)
(*                                                                         *)
(* Two specifications share the steps of run_audit:                        *)
(*   Spec    the script: widgets start at their defaults, the user edits   *)
(*           them, clicks the button, run_audit runs, the result is        *)
(*           rendered;                                                     *)
(*   SpecFn  run_audit as a function: it is entered once on any            *)
(*           declaration, a risk_level outside the select box's options    *)
(*           included, and runs to its return.                             *)
(***************************************************************************)
EXTENDS Integers, Sequences, FiniteSets

VARIABLES
    widgets,      \* the form's widget values (app.py 15-54)
    pc,           \* where the script is: idle, inside run_audit, returned
    system_data,  \* the dict assembled on a click (app.py 165-184)
    frame,        \* run_audit's locals: score and findings (app.py 78-79)
    result,       \* what run_audit returned (app.py 186)
    screen,       \* what the script rendered: banner and finding boxes
    prev          \* history: the audit shown when the button was clicked again

vars == <<widgets, pc, system_data, frame, result, screen, prev>>

(***************************************************************************)
(* Bounds and input sets                                                   *)
(***************************************************************************)
\* Readings of the wall clock that datetime.utcnow() may return.
MaxClock == 2

Clock == 1..MaxClock

\* Values typed into the three text fields: the default and one other.
NameTexts == {"Benefits Eligibility Assistant", "Claims Triage Model"}

OwnerTexts == {"AFLCMC Benefits Modernization PMO", "Other Program Office"}

UseCaseTexts == {"Helps case workers analyze benefits eligibility inquiries.",
                 "Ranks incoming claims for review."}

\* The select box's options (app.py 24).
RiskOptions == {"low", "medium", "high"}

\* What a caller of run_audit may pass as risk_level: the options and two
\* malformed values, one of them "high" in another case.
RiskValues == RiskOptions \cup {"HIGH", "critical"}

CheckboxNames == {"rights_impacting", "safety_impacting", "model_card",
                  "data_sheet", "pia", "bias_eval", "oversight_plan",
                  "logs_enabled", "drift_monitoring", "bias_monitoring"}

TextNames == {"name", "owner", "use_case"}

TextValues(w) ==
    CASE w = "name" -> NameTexts
      [] w = "owner" -> OwnerTexts
      [] w = "use_case" -> UseCaseTexts

\* Every declaration a caller may pass to run_audit.
Declarations ==
    [name : NameTexts, owner : OwnerTexts, use_case : UseCaseTexts,
     rights_impacting : BOOLEAN, safety_impacting : BOOLEAN,
     risk_level : RiskValues,
     artifacts : [model_card : BOOLEAN, data_sheet : BOOLEAN, pia : BOOLEAN,
                  bias_eval : BOOLEAN, oversight_plan : BOOLEAN],
     monitoring : [logs_enabled : BOOLEAN, drift_monitoring : BOOLEAN,
                   bias_monitoring : BOOLEAN]]

(***************************************************************************)
(* The form                                                                *)
(***************************************************************************)
WidgetDefaults ==
    [name |-> "Benefits Eligibility Assistant",
     owner |-> "AFLCMC Benefits Modernization PMO",
     use_case |-> "Helps case workers analyze benefits eligibility inquiries.",
     rights_impacting |-> TRUE,
     safety_impacting |-> FALSE,
     risk_level |-> "high",
     model_card |-> TRUE,
     data_sheet |-> TRUE,
     pia |-> FALSE,
     bias_eval |-> TRUE,
     oversight_plan |-> FALSE,
     logs_enabled |-> TRUE,
     drift_monitoring |-> TRUE,
     bias_monitoring |-> FALSE]

\* system_data = {...} built from the widget variables.
AssembleSystemData(w) ==
    [name |-> w.name, owner |-> w.owner, use_case |-> w.use_case,
     rights_impacting |-> w.rights_impacting,
     safety_impacting |-> w.safety_impacting,
     risk_level |-> w.risk_level,
     artifacts |-> [model_card |-> w.model_card, data_sheet |-> w.data_sheet,
                    pia |-> w.pia, bias_eval |-> w.bias_eval,
                    oversight_plan |-> w.oversight_plan],
     monitoring |-> [logs_enabled |-> w.logs_enabled,
                     drift_monitoring |-> w.drift_monitoring,
                     bias_monitoring |-> w.bias_monitoring]]

\* Placeholders for names the script has not bound (no audit was run in
\* this rerun of the script).
NoData ==
    [name |-> "", owner |-> "", use_case |-> "",
     rights_impacting |-> FALSE, safety_impacting |-> FALSE, risk_level |-> "",
     artifacts |-> [model_card |-> FALSE, data_sheet |-> FALSE, pia |-> FALSE,
                    bias_eval |-> FALSE, oversight_plan |-> FALSE],
     monitoring |-> [logs_enabled |-> FALSE, drift_monitoring |-> FALSE,
                     bias_monitoring |-> FALSE]]

NoFrame == [score |-> 0, findings |-> <<>>]

NoResult == [status |-> "", score |-> 0, findings |-> <<>>, generated_at |-> 0]

NoScreen == [banner |-> "", boxes |-> <<>>, note |-> ""]

NoPrev == [set |-> FALSE, system |-> NoData, audit |-> NoResult]

(***************************************************************************)
(* run_audit                                                               *)
(***************************************************************************)
\* Mutant: the locals start from what the last audit left behind.
NewFrame_Carried ==
    IF result.status = "" THEN [score |-> 100, findings |-> <<>>]
    ELSE [score |-> result.score, findings |-> result.findings]

\* findings = [] ; score = 100
NewFrame == [score |-> 100, findings |-> <<>>]

\* Mutant: the penalty is added to the score.
add_finding_Plus(fr, rule, severity, message, remediation, penalty) ==
    [score |-> fr.score + penalty,
     findings |-> Append(fr.findings,
                         [rule |-> rule, severity |-> severity,
                          message |-> message, remediation |-> remediation])]

\* add_finding: subtract the penalty, append the finding.
add_finding(fr, rule, severity, message, remediation, penalty) ==
    [score |-> fr.score - penalty,
     findings |-> Append(fr.findings,
                         [rule |-> rule, severity |-> severity,
                          message |-> message, remediation |-> remediation])]

\* 1) Rights-impacting requires PIA
RulePia(d, fr) ==
    IF d.rights_impacting /\ ~d.artifacts.pia
    THEN add_finding(fr, "DOC-PIA-001", "HIGH",
           "Rights-impacting system is missing a Privacy Impact Assessment (PIA).",
           "Conduct and document a Privacy Impact Assessment, then store it as an official artifact and link it in your inventory.",
           25)
    ELSE fr

\* Mutant: a missing oversight plan costs 15 points.
RuleOversight_Penalty15(d, fr) ==
    IF d.risk_level = "high" /\ ~d.artifacts.oversight_plan
    THEN [score |-> fr.score - 15,
          findings |-> Append(fr.findings,
             [rule |-> "GOV-OVERSIGHT-003", severity |-> "HIGH",
              message |-> "High-risk system has no documented human oversight & escalation plan.",
              remediation |-> "Define who reviews outputs, when humans must intervene, and how escalation works. Document this as a formal oversight plan."])]
    ELSE fr

\* 2) High risk requires human oversight plan
RuleOversight(d, fr) ==
    IF d.risk_level = "high" /\ ~d.artifacts.oversight_plan
    THEN add_finding(fr, "GOV-OVERSIGHT-003", "HIGH",
           "High-risk system has no documented human oversight & escalation plan.",
           "Define who reviews outputs, when humans must intervene, and how escalation works. Document this as a formal oversight plan.",
           25)
    ELSE fr

\* Mutant: the bias-monitoring rule forgets the risk level.
RuleBias_AnyRisk(d, fr) ==
    IF ~d.monitoring.bias_monitoring
    THEN [score |-> fr.score - 15,
          findings |-> Append(fr.findings,
             [rule |-> "MON-BIAS-004", severity |-> "MEDIUM",
              message |-> "High-risk system does not have ongoing bias / outcome monitoring.",
              remediation |-> "Set up periodic or continuous bias checks on key segments and protected groups, with thresholds and alerts when metrics drift."])]
    ELSE fr

\* 3) High risk should have ongoing bias monitoring
RuleBias(d, fr) ==
    IF d.risk_level = "high" /\ ~d.monitoring.bias_monitoring
    THEN add_finding(fr, "MON-BIAS-004", "MEDIUM",
           "High-risk system does not have ongoing bias / outcome monitoring.",
           "Set up periodic or continuous bias checks on key segments and protected groups, with thresholds and alerts when metrics drift.",
           15)
    ELSE fr

\* Mutant: disabled logging costs 15 points.
RuleLogs_Penalty15(d, fr) ==
    IF ~d.monitoring.logs_enabled
    THEN [score |-> fr.score - 15,
          findings |-> Append(fr.findings,
             [rule |-> "MON-LOG-005", severity |-> "MEDIUM",
              message |-> "Logging is disabled; decisions and usage are not auditable.",
              remediation |-> "Enable detailed logging for inputs, outputs, decisions, and key configuration changes, and retain them per policy."])]
    ELSE fr

\* 4) Logging must be enabled for auditability
RuleLogs(d, fr) ==
    IF ~d.monitoring.logs_enabled
    THEN add_finding(fr, "MON-LOG-005", "MEDIUM",
           "Logging is disabled; decisions and usage are not auditable.",
           "Enable detailed logging for inputs, outputs, decisions, and key configuration changes, and retain them per policy.",
           10)
    ELSE fr

\* Mutant: the drift rule fires when drift monitoring is enabled.
RuleDrift_Inverted(d, fr) ==
    IF d.monitoring.drift_monitoring
    THEN [score |-> fr.score - 5,
          findings |-> Append(fr.findings,
             [rule |-> "MON-DRIFT-006", severity |-> "LOW",
              message |-> "Model drift is not being monitored.",
              remediation |-> "Implement drift monitoring on key performance metrics and data distributions. Review on a regular cadence."])]
    ELSE fr

\* 5) Drift monitoring recommended
RuleDrift(d, fr) ==
    IF ~d.monitoring.drift_monitoring
    THEN add_finding(fr, "MON-DRIFT-006", "LOW",
           "Model drift is not being monitored.",
           "Implement drift monitoring on key performance metrics and data distributions. Review on a regular cadence.",
           5)
    ELSE fr

\* Mutant: the score is floored at 25.
Clamp_Floor25(s) == IF s > 25 THEN s ELSE 25

\* score = max(0, score)
Clamp(s) == IF s > 0 THEN s ELSE 0

IsHigh(f) == f.severity = "HIGH"

\* Mutant: PASS needs a score above 85.
DeriveStatus_Above85(s, fs) ==
    IF s > 85 /\ Len(SelectSeq(fs, IsHigh)) = 0 THEN "PASS"
    ELSE IF s >= 60 THEN "CONDITIONAL"
    ELSE "FAIL"

\* The if / elif / else that derives the status.
DeriveStatus(s, fs) ==
    IF s >= 85 /\ Len(SelectSeq(fs, IsHigh)) = 0 THEN "PASS"
    ELSE IF s >= 60 THEN "CONDITIONAL"
    ELSE "FAIL"

\* What run_audit returns from its locals, the timestamp apart.
Verdict(fr) ==
    LET s == Clamp(fr.score)
    IN  [status |-> DeriveStatus(s, fr.findings), score |-> s,
         findings |-> fr.findings]

\* run_audit as a function of the declaration, the timestamp apart.
RunAudit(d) ==
    Verdict(RuleDrift(d, RuleLogs(d, RuleBias(d,
            RuleOversight(d, RulePia(d, NewFrame))))))

(***************************************************************************)
(* Rendering                                                               *)
(***************************************************************************)
\* severity_rank.get(f["severity"], 3)
severity_rank(sev) ==
    CASE sev = "HIGH" -> 0
      [] sev = "MEDIUM" -> 1
      [] sev = "LOW" -> 2
      [] OTHER -> 3

\* Mutant: f goes in front of the elements whose key equals its own.
InsertByRank_Before(s, f) ==
    LET k == Cardinality({i \in 1..Len(s) :
                            severity_rank(s[i].severity) < severity_rank(f.severity)})
    IN  SubSeq(s, 1, k) \o <<f>> \o SubSeq(s, k + 1, Len(s))

\* One step of the stable sort: f goes behind every element already placed
\* whose key is not greater than its own.
InsertByRank(s, f) ==
    LET k == Cardinality({i \in 1..Len(s) :
                            severity_rank(s[i].severity) <= severity_rank(f.severity)})
    IN  SubSeq(s, 1, k) \o <<f>> \o SubSeq(s, k + 1, Len(s))

RECURSIVE SortFrom(_, _)
SortFrom(placed, rest) ==
    IF rest = <<>> THEN placed
    ELSE SortFrom(InsertByRank(placed, Head(rest)), Tail(rest))

\* sorted(result["findings"], key=...): Python's sort is stable.
sorted_findings(fs) == SortFrom(<<>>, fs)

\* st.error / st.warning / st.info by severity.
BoxFor(sev) ==
    IF sev = "HIGH" THEN "error"
    ELSE IF sev = "MEDIUM" THEN "warning"
    ELSE "info"

\* The high-level guidance shown for a status.
BannerFor(status) ==
    IF status = "PASS" THEN "success"
    ELSE IF status = "CONDITIONAL" THEN "warning"
    ELSE "error"

RenderScreen(r) ==
    LET sf == sorted_findings(r.findings)
    IN  [banner |-> BannerFor(r.status),
         boxes |-> [i \in 1..Len(sf) |->
                      [box |-> BoxFor(sf[i].severity), finding |-> sf[i]]],
         note |-> IF Len(r.findings) = 0 THEN "No findings." ELSE ""]

(***************************************************************************)
(* Actions                                                                 *)
(***************************************************************************)
\* Any interaction reruns the script; without a click the button is False
\* and nothing of the last audit is rendered.
Rerun(w) ==
    /\ widgets' = w
    /\ system_data' = NoData
    /\ result' = NoResult
    /\ screen' = NoScreen
    /\ prev' = NoPrev
    /\ UNCHANGED <<pc, frame>>

SetCheckbox ==
    /\ pc = "idle"
    /\ \E c \in CheckboxNames : Rerun([widgets EXCEPT ![c] = ~widgets[c]])

SelectRisk ==
    /\ pc = "idle"
    /\ \E r \in RiskOptions \ {widgets.risk_level} :
          Rerun([widgets EXCEPT !.risk_level = r])

EditText ==
    /\ pc = "idle"
    /\ \E t \in TextNames : \E v \in TextValues(t) \ {widgets[t]} :
          Rerun([widgets EXCEPT ![t] = v])

\* if st.button(...): system_data = {...}; run_audit(system_data) is entered.
ClickButton ==
    /\ pc = "idle"
    /\ system_data' = AssembleSystemData(widgets)
    /\ frame' = NewFrame
    /\ pc' = "pia"
    /\ result' = NoResult
    /\ screen' = NoScreen
    /\ prev' = IF result = NoResult THEN NoPrev
               ELSE [set |-> TRUE, system |-> system_data, audit |-> result]
    /\ UNCHANGED widgets

CheckPia ==
    /\ pc = "pia"
    /\ frame' = RulePia(system_data, frame)
    /\ pc' = "oversight"
    /\ UNCHANGED <<widgets, system_data, result, screen, prev>>

CheckOversight ==
    /\ pc = "oversight"
    /\ frame' = RuleOversight(system_data, frame)
    /\ pc' = "bias"
    /\ UNCHANGED <<widgets, system_data, result, screen, prev>>

CheckBias ==
    /\ pc = "bias"
    /\ frame' = RuleBias(system_data, frame)
    /\ pc' = "logs"
    /\ UNCHANGED <<widgets, system_data, result, screen, prev>>

CheckLogs ==
    /\ pc = "logs"
    /\ frame' = RuleLogs(system_data, frame)
    /\ pc' = "drift"
    /\ UNCHANGED <<widgets, system_data, result, screen, prev>>

CheckDrift ==
    /\ pc = "drift"
    /\ frame' = RuleDrift(system_data, frame)
    /\ pc' = "finish"
    /\ UNCHANGED <<widgets, system_data, result, screen, prev>>

\* Clamp, derive the status, read the clock, return; the locals die.
Finish ==
    /\ pc = "finish"
    /\ \E t \in Clock :
          LET v == Verdict(frame)
          IN  result' = [status |-> v.status, score |-> v.score,
                         findings |-> v.findings, generated_at |-> t]
    /\ frame' = NoFrame
    /\ pc' = "returned"
    /\ UNCHANGED <<widgets, system_data, screen, prev>>

\* The script renders the result and ends.
Render ==
    /\ pc = "returned"
    /\ screen' = RenderScreen(result)
    /\ pc' = "idle"
    /\ UNCHANGED <<widgets, system_data, frame, result, prev>>

RunAuditSteps ==
    \/ CheckPia
    \/ CheckOversight
    \/ CheckBias
    \/ CheckLogs
    \/ CheckDrift
    \/ Finish

(***************************************************************************)
(* Specifications                                                          *)
(***************************************************************************)
Init ==
    /\ widgets = WidgetDefaults
    /\ pc = "idle"
    /\ system_data = NoData
    /\ frame = NoFrame
    /\ result = NoResult
    /\ screen = NoScreen
    /\ prev = NoPrev

Next ==
    \/ SetCheckbox
    \/ SelectRisk
    \/ EditText
    \/ ClickButton
    \/ RunAuditSteps
    \/ Render

Spec == Init /\ [][Next]_vars

\* run_audit entered on any declaration.
InitFn ==
    /\ widgets = WidgetDefaults
    /\ system_data \in Declarations
    /\ frame = NewFrame
    /\ pc = "pia"
    /\ result = NoResult
    /\ screen = NoScreen
    /\ prev = NoPrev

NextFn == RunAuditSteps

SpecFn == InitFn /\ [][NextFn]_vars

(***************************************************************************)
(* Properties                                                              *)
(***************************************************************************)
\* run_audit has returned and its result is bound.
Returned == pc = "returned"

\* An audit is on the screen.
Shown == pc = "idle" /\ result # NoResult

RuleIds == {"DOC-PIA-001", "GOV-OVERSIGHT-003", "MON-BIAS-004",
            "MON-LOG-005", "MON-DRIFT-006"}

\* The rule table of section 4.1: when a rule is due for a declaration.
Due(rule, d) ==
    CASE rule = "DOC-PIA-001" -> d.rights_impacting /\ ~d.artifacts.pia
      [] rule = "GOV-OVERSIGHT-003" ->
            d.risk_level = "high" /\ ~d.artifacts.oversight_plan
      [] rule = "MON-BIAS-004" ->
            d.risk_level = "high" /\ ~d.monitoring.bias_monitoring
      [] rule = "MON-LOG-005" -> ~d.monitoring.logs_enabled
      [] rule = "MON-DRIFT-006" -> ~d.monitoring.drift_monitoring

SeverityOfRule(rule) ==
    CASE rule \in {"DOC-PIA-001", "GOV-OVERSIGHT-003"} -> "HIGH"
      [] rule \in {"MON-BIAS-004", "MON-LOG-005"} -> "MEDIUM"
      [] rule = "MON-DRIFT-006" -> "LOW"

PenaltyOfRule(rule) ==
    CASE rule \in {"DOC-PIA-001", "GOV-OVERSIGHT-003"} -> 25
      [] rule = "MON-BIAS-004" -> 15
      [] rule = "MON-LOG-005" -> 10
      [] rule = "MON-DRIFT-006" -> 5

RECURSIVE SumPenalties(_)
SumPenalties(rules) ==
    IF rules = {} THEN 0
    ELSE LET r == CHOOSE x \in rules : TRUE
         IN  PenaltyOfRule(r) + SumPenalties(rules \ {r})

DueRules(d) == {r \in RuleIds : Due(r, d)}

Occurrences(fs, rule) == Cardinality({i \in 1..Len(fs) : fs[i].rule = rule})

HasHigh(fs) == \E i \in 1..Len(fs) : fs[i].severity = "HIGH"

TriggeredOf(fs) == {fs[i].rule : i \in 1..Len(fs)}

\* C1: when run_audit returns, each of the five rules is among the findings,
\* once and with its severity, exactly when its condition holds for the
\* declaration; nothing else is among them; and when risk_level is not
\* "high" (low, medium or malformed) the oversight-plan and bias-monitoring
\* findings are absent whatever their flags.
C1_RulesIndependent ==
    Returned =>
        LET d == system_data
            fs == result.findings
        IN  /\ \A r \in RuleIds :
                 /\ Occurrences(fs, r) = (IF Due(r, d) THEN 1 ELSE 0)
                 /\ Due(r, d) <=>
                      \E i \in 1..Len(fs) :
                         fs[i].rule = r /\ fs[i].severity = SeverityOfRule(r)
            /\ \A i \in 1..Len(fs) :
                 fs[i].rule \in RuleIds /\ fs[i].severity = SeverityOfRule(fs[i].rule)
            /\ d.risk_level # "high" =>
                 /\ Occurrences(fs, "GOV-OVERSIGHT-003") = 0
                 /\ Occurrences(fs, "MON-BIAS-004") = 0

\* A malformed risk_level with neither oversight plan nor bias monitoring,
\* and the three other rules triggered.
C1_Witness ==
    /\ Returned
    /\ system_data.risk_level \notin RiskOptions
    /\ ~system_data.artifacts.oversight_plan
    /\ ~system_data.monitoring.bias_monitoring
    /\ TriggeredOf(result.findings) = {"DOC-PIA-001", "MON-LOG-005", "MON-DRIFT-006"}

\* C2: the returned score is max(0, 100 - the penalties of the rules due),
\* with penalties 25, 25, 15, 10 and 5, and lies in 0..100; with all five
\* rules due it is 20 and the status is FAIL.
C2_ScoreFormula ==
    Returned =>
        LET due == DueRules(system_data)
            raw == 100 - SumPenalties(due)
        IN  /\ result.score = (IF raw > 0 THEN raw ELSE 0)
            /\ result.score \in 0..100
            /\ due = RuleIds => result.score = 20 /\ result.status = "FAIL"

\* All five rules due: high risk, rights-impacting, every flag false.
C2_Witness ==
    /\ Returned
    /\ system_data.risk_level = "high"
    /\ system_data.rights_impacting
    /\ \A a \in DOMAIN system_data.artifacts : ~system_data.artifacts[a]
    /\ \A m \in DOMAIN system_data.monitoring : ~system_data.monitoring[m]
    /\ result.score = 20

\* C3: the returned status is PASS exactly when the score is at least 85 and
\* no finding is HIGH; otherwise CONDITIONAL exactly when the score is at
\* least 60; otherwise FAIL.
C3_StatusFromScoreAndHigh ==
    Returned =>
        LET pass == result.score >= 85 /\ ~HasHigh(result.findings)
        IN  /\ result.status \in {"PASS", "CONDITIONAL", "FAIL"}
            /\ result.status = "PASS" <=> pass
            /\ result.status = "CONDITIONAL" <=> (~pass /\ result.score >= 60)
            /\ result.status = "FAIL" <=> (~pass /\ result.score < 60)

\* The lowest score that passes.
C3_Witness ==
    /\ Returned
    /\ result.score = 85
    /\ result.status = "PASS"
    /\ Len(result.findings) = 2

\* C4: for a rights-impacting declaration without a PIA, the PIA finding is
\* returned and the score is 25 below the score of the same declaration with
\* the PIA in place.
C4_PiaCosts25 ==
    (Returned /\ system_data.rights_impacting /\ ~system_data.artifacts.pia) =>
        /\ Occurrences(result.findings, "DOC-PIA-001") = 1
        /\ result.score =
             RunAudit([system_data EXCEPT !.artifacts.pia = TRUE]).score - 25

\* The case nearest the floor: the PIA missing and the four other rules due.
C4_Witness ==
    /\ Returned
    /\ system_data.rights_impacting
    /\ ~system_data.artifacts.pia
    /\ Len(result.findings) = 5

\* C5: every artifact and monitoring flag set and risk_level low give score
\* 100, no findings and PASS, whatever the other fields.
C5_CleanDeclaration ==
    ( /\ Returned
      /\ system_data.risk_level = "low"
      /\ \A a \in DOMAIN system_data.artifacts : system_data.artifacts[a]
      /\ \A m \in DOMAIN system_data.monitoring : system_data.monitoring[m] ) =>
        /\ result.score = 100
        /\ result.findings = <<>>
        /\ result.status = "PASS"

\* A clean low-risk declaration with the impact boxes ticked and edited text.
C5_Witness ==
    /\ Returned
    /\ system_data.risk_level = "low"
    /\ \A a \in DOMAIN system_data.artifacts : system_data.artifacts[a]
    /\ \A m \in DOMAIN system_data.monitoring : system_data.monitoring[m]
    /\ system_data.rights_impacting
    /\ system_data.safety_impacting
    /\ system_data.name # WidgetDefaults.name
    /\ system_data.owner # WidgetDefaults.owner
    /\ system_data.use_case # WidgetDefaults.use_case

\* The rules triggered and the score, for every declaration.
AuditPairs ==
    {<<TriggeredOf(RunAudit(D).findings), RunAudit(D).score>> : D \in Declarations}

\* Between any two declarations: more rules triggered, no higher score.
C6_SubsetLowersScore ==
    Returned =>
        \A B \in AuditPairs :
            /\ TriggeredOf(result.findings) \subseteq B[1] => B[2] <= result.score
            /\ B[1] \subseteq TriggeredOf(result.findings) => result.score <= B[2]

\* A rule check leaves the running score equal or lower.
C6_RuleCheckStep ==
    pc \in {"pia", "oversight", "bias", "logs", "drift"} =>
        frame'.score <= frame.score

\* C6: a declaration that triggers a superset of the rules another triggers
\* scores no higher, and within one run the running score never rises from
\* one rule check to the next.
C6_ScoreMonotone == [](C6_SubsetLowersScore) /\ [][C6_RuleCheckStep]_vars

\* Two rules triggered, and some declaration triggers more and scores less.
C6_Witness ==
    /\ Returned
    /\ Len(result.findings) = 2
    /\ \E B \in AuditPairs :
          /\ TriggeredOf(result.findings) \subseteq B[1]
          /\ TriggeredOf(result.findings) # B[1]
          /\ B[2] < result.score

PositionIn(fs, f) == CHOOSE i \in 1..Len(fs) : fs[i] = f

\* C7: the findings on the screen are a permutation of result.findings,
\* non-decreasing in severity rank (HIGH 0, MEDIUM 1, LOW 2), findings of
\* one severity in the order run_audit produced them.
C7_DisplaySorted ==
    (Shown /\ Len(result.findings) >= 1) =>
        LET fs == result.findings
            bs == screen.boxes
        IN  /\ Len(bs) = Len(fs)
            /\ \A i \in 1..Len(fs) :
                 Cardinality({j \in 1..Len(bs) : bs[j].finding = fs[i]})
                   = Cardinality({j \in 1..Len(fs) : fs[j] = fs[i]})
            /\ \A i, j \in 1..Len(bs) :
                 i < j =>
                    /\ severity_rank(bs[i].finding.severity)
                         <= severity_rank(bs[j].finding.severity)
                    /\ bs[i].finding.severity = bs[j].finding.severity =>
                         PositionIn(fs, bs[i].finding) < PositionIn(fs, bs[j].finding)

\* All five findings on the screen: two HIGH, two MEDIUM, one LOW.
C7_Witness ==
    /\ Shown
    /\ Len(result.findings) = 5
    /\ Len(screen.boxes) = 5

\* C8: an audit of the declaration that was just audited returns the same
\* status, score and findings; only generated_at may differ.
C8_Deterministic ==
    (prev.set /\ result # NoResult /\ prev.system = system_data) =>
        /\ result.status = prev.audit.status
        /\ result.score = prev.audit.score
        /\ result.findings = prev.audit.findings

\* The button clicked twice on one form with findings, the clock read twice.
C8_Witness ==
    /\ prev.set
    /\ Shown
    /\ prev.system = system_data
    /\ Len(result.findings) >= 2
    /\ result.generated_at # prev.audit.generated_at

\* C9: whenever run_audit returns PASS no rule was triggered and the findings
\* are empty; the PASS banner is never shown together with a finding.
C9_PassMeansNoFindings ==
    /\ (result # NoResult /\ result.status = "PASS") => result.findings = <<>>
    /\ screen.banner = "success" => screen.boxes = <<>>

\* The simplified variant of the audit function (section 9 of the
\* specification): the status from the score alone.
SimplifiedStatus(s) ==
    IF s >= 85 THEN "PASS" ELSE IF s >= 60 THEN "CONDITIONAL" ELSE "FAIL"

\* C10: the status run_audit returns equals the status the score alone
\* gives (PASS from 85, CONDITIONAL from 60, else FAIL): a HIGH finding
\* leaves a score of at most 75.
C10_HighGateRedundant ==
    Returned =>
        /\ result.status = SimplifiedStatus(result.score)
        /\ HasHigh(result.findings) => result.score <= 75

\* One HIGH finding and nothing else: the highest score a HIGH finding leaves.
C10_Witness ==
    /\ Returned
    /\ HasHigh(result.findings)
    /\ result.score = 75
    /\ result.status = "CONDITIONAL"

=============================================================================
